---- MODULE Spec2Model ----
(***************************************************************************)
(* GcnSelectionForm (src/unnamed/part_000): the selection controller, the  *)
(* query form with its submit chain, the sky-map overlay fetch, the        *)
(* Treasure Map buttons, the tabs with their result panes and the display  *)
(* toggles, as a state machine over the component's React state, the       *)
(* slices of the redux store it reads, and the requests that are in        *)
(* flight.                                                                 *)
(*                                                                         *)
(* Encoding of JavaScript values:                                          *)
(*   - ids are positive integers; null/undefined ids are NullId (0, which  *)
(*     is falsy like null);                                                *)
(*   - strings that may be null/undefined use "" (falsy like null);        *)
(*   - a value that may be undefined where its type matters is an option:  *)
(*     <<>> is undefined, <<v>> is v.                                      *)
(***************************************************************************)
EXTENDS Integers, Sequences, FiniteSets, TLC

VARIABLES
    dateobs,                   \* prop: the requested event
    gcnEvent,                  \* store: state.gcnEvent
    instrumentList,            \* store: state.instruments.instrumentList
    selectedInstrumentId,      \* useState(null)
    selectedLocalizationId,    \* useState(null)
    selectedLocalizationName,  \* prop + setter owned by the parent
    isSubmitting,              \* useState(false)
    isSubmittingTreasureMap,   \* useState(null)
    isDeletingTreasureMap,     \* useState(null)
    skymapInstrument,          \* useState(null)
    skymapInFlight,            \* fetchInstrumentSkymap requests unanswered
    tmSubmitInFlight,          \* submitObservationsTreasureMap requests per id
    tmDeleteInFlight,          \* deleteObservationsTreasureMap requests per id
    formData,                  \* the data the rjsf Form holds and validates
    submitHandlers,            \* handleSubmit invocations suspended at an
                               \* await: the fetch awaited (pc), the fetches
                               \* dispatched so far (sent), formData (data)
                               \* and gcnEvent?.dateobs of its closure
    formDataState,             \* useState({startDate, endDate})
    sourceFilteringState,      \* useState({... null})
    gcnEventSources,           \* store: state.sources.gcnEventSources
    gcnEventGalaxies,          \* store: state.galaxies.gcnEventGalaxies
    gcnEventObservations,      \* store: state.observations.gcnEventObservations
    tabIndex,                  \* useState(1)
    isBig,                     \* useMediaQuery(theme.breakpoints.up("md"))
    sourcesRowsPerPage,        \* GcnEventSourcesPage: useState(100)
    tableRequest,              \* the fetch the sources table dispatched last
    tableFetches,              \* fetches of the sources table unanswered
    lastNumPerPage,            \* numPerPage of the last pagination callback
    allocationListApiObsplan,  \* store: state.allocations, as allocation ids
    allocationsFetch,          \* getAllocations: "pending" at its await
    selectedAllocationId,      \* SkymapTriggerAPIDisplay: useState(null)
    triggerList,               \* useState(["None"])
    selectedTriggerName,       \* useState("None")
    triggerInFlight,           \* requestAPISkymapTriggers unanswered, per id
    gcnEvents,                 \* store: state.gcnEvents.events
    selectedGcnEventId,        \* useState(null)
    gcneventid,                \* useForm: the field "gcneventid"
    localizationid,            \* useForm: the field "localizationid"
    triggerRequest,            \* the add or delete request dispatched last
    recentGcnEvents,           \* store: state.recentGcnEvents
    recentGcnEventsPrefs,      \* store: profile.preferences?.recentGcnEvents
    recentMounted,             \* RecentGcnEvents has rendered
    recentFetches              \* fetchRecentGcnEvents dispatched so far

vars == <<dateobs, gcnEvent, instrumentList, selectedInstrumentId,
          selectedLocalizationId, selectedLocalizationName, isSubmitting,
          isSubmittingTreasureMap, isDeletingTreasureMap, skymapInstrument,
          skymapInFlight, tmSubmitInFlight, tmDeleteInFlight, formData,
          submitHandlers, formDataState, sourceFilteringState,
          gcnEventSources, gcnEventGalaxies, gcnEventObservations, tabIndex,
          isBig, sourcesRowsPerPage, tableRequest, tableFetches,
          lastNumPerPage, allocationListApiObsplan, allocationsFetch,
          selectedAllocationId, triggerList, selectedTriggerName,
          triggerInFlight, gcnEvents, selectedGcnEventId, gcneventid,
          localizationid, triggerRequest, recentGcnEvents,
          recentGcnEventsPrefs, recentMounted, recentFetches>>

storeVars == <<gcnEvent, instrumentList>>
selectionVars == <<selectedInstrumentId, selectedLocalizationId,
                   selectedLocalizationName>>
skymapVars == <<skymapInstrument, skymapInFlight>>
treasureMapVars == <<isSubmittingTreasureMap, isDeletingTreasureMap,
                     tmSubmitInFlight, tmDeleteInFlight>>
queryVars == <<isSubmitting, formData, submitHandlers, formDataState,
               sourceFilteringState>>
resultVars == <<gcnEventSources, gcnEventGalaxies, gcnEventObservations>>
viewVars == <<tabIndex, isBig>>
formVars == <<dateobs, storeVars, selectionVars, skymapVars, treasureMapVars,
              queryVars, resultVars, viewVars>>
tableVars == <<sourcesRowsPerPage, tableRequest, tableFetches,
               lastNumPerPage>>
triggerVars == <<allocationListApiObsplan, allocationsFetch,
                 selectedAllocationId, triggerList, selectedTriggerName,
                 triggerInFlight, gcnEvents, selectedGcnEventId, gcneventid,
                 localizationid, triggerRequest>>
recentVars == <<recentGcnEvents, recentGcnEventsPrefs, recentMounted,
                recentFetches>>
componentVars == <<triggerVars, recentVars>>

----------------------------------------------------------------------------
\* Bounds of the model.

\* instrument ids are 1..MaxInstrumentId
MaxInstrumentId == 3
\* page sizes the sources table offers besides the default one
MaxNumPerPage == 1
\* pages of the sources table
MaxPageNumber == 2
\* fetches of the sources table outstanding at a time
MaxTableFetches == 1
\* allocation ids are 1..MaxAllocationId
MaxAllocationId == 2
\* trigger-name catalog requests outstanding at a time
MaxTriggerInFlight == 2
\* longest list of recent events the store holds
MaxRecentEvents == 3
\* longest instrument list the store holds
MaxInstruments == 3
\* most Treasure Map requests of one kind (submit, retract) outstanding
MaxTMInFlight == 2
\* most handleSubmit invocations suspended at once
MaxHandlers == 2
\* most items a fetched result collection holds
MaxItems == 1

----------------------------------------------------------------------------
\* Values.

NullId == 0
NoName == ""
Undefined == <<>>
Some(v) == <<v>>

InstrumentIds == 1..MaxInstrumentId
InstrumentNames == {"ZTF", "DECam", "WINTER"}
Instrument == [id : InstrumentIds, name : InstrumentNames]

SeqsUpTo(S, n) == UNION {[1..k -> S] : k \in 0..n}

\* instrument lists as the backend returns them: ids and names are unique
AllInstrumentLists ==
    {l \in SeqsUpTo(Instrument, MaxInstruments) :
        \A i, j \in 1..Len(l) :
            i # j => l[i].id # l[j].id /\ l[i].name # l[j].name}

\* the lists the controller specifications load: two instruments at most
ControllerInstrumentLists ==
    {l \in AllInstrumentLists :
        /\ Len(l) <= 2
        /\ \A i \in 1..Len(l) : l[i].id <= 2 /\ l[i].name \in {"ZTF", "DECam"}}

\* the lists the Treasure Map specification loads: both instruments
TreasureMapInstrumentLists == {l \in ControllerInstrumentLists : Len(l) = 2}

\* the list the query specifications load
QueryInstrumentLists ==
    {l \in TreasureMapInstrumentLists : l[1].id = 1 /\ l[1].name = "DECam"}

NullEvent == [isNull |-> TRUE, dateobs |-> "", localizations |-> <<>>]

Loc(id, name) == [id |-> id, localization_name |-> name]

\* the events of the backend: d1 has two localizations, the newest first;
\* d2 has none
Events ==
    { [isNull |-> FALSE, dateobs |-> "d1",
       localizations |->
          <<Loc(2, "bayestar.fits"), Loc(1, "LALInference.fits")>>],
      [isNull |-> FALSE, dateobs |-> "d2", localizations |-> <<>>] }

Dateobs == {e.dateobs : e \in Events}

LocalizationIds ==
    UNION {{e.localizations[i].id : i \in DOMAIN e.localizations} :
              e \in Events}

\* a result slice of the store: null until a response has been stored, then
\* the response with its array of items
NullCollection == [isNull |-> TRUE, items |-> <<>>]
Collection(n) == [isNull |-> FALSE, items |-> [i \in 1..n |-> i]]
ResultSizes == 0..MaxItems

\* the tabs, in the order of the <Tab> elements
SkymapTab == 0
QueryFormTab == 1
SourcesTab == 2
GalaxiesTab == 3
ObservationsTab == 4
Tabs == {SkymapTab, QueryFormTab, SourcesTab, GalaxiesTab, ObservationsTab}

----------------------------------------------------------------------------
\* Lookup tables, rebuilt on every render (lines 513-528).

MaxOf(S) == CHOOSE m \in S : \A x \in S : x <= m

\* {id: entity} built by forEach: a later entry with the same id overwrites
LookUp(list) ==
    [k \in {list[i].id : i \in DOMAIN list} |->
        list[MaxOf({i \in DOMAIN list : list[i].id = k})]]

instLookUp(insts) == LookUp(insts)

locLookUp(ev) == LookUp(ev.localizations)

----------------------------------------------------------------------------
\* setDefaults (lines 413-448).

\* a variant that orders by id alone
setDefaultsCompare_IdOnly(i1, i2) ==
    IF i1.id > i2.id THEN 1 ELSE IF i2.id > i1.id THEN -1 ELSE 0

\* a variant whose id comparison is reversed
setDefaultsCompare_Reversed(i1, i2) ==
    IF i1.name = "ZTF" THEN -1
    ELSE IF i2.name = "ZTF" THEN 1
    ELSE IF i1.id > i2.id THEN -1
    ELSE IF i2.id > i1.id THEN 1
    ELSE 0

\* the comparator handed to orderedInstrumentList.sort
setDefaultsCompare(i1, i2) ==
    IF i1.name = "ZTF" THEN -1
    ELSE IF i2.name = "ZTF" THEN 1
    ELSE IF i1.id > i2.id THEN 1
    ELSE IF i2.id > i1.id THEN -1
    ELSE 0

\* Array.prototype.sort as a stable insertion sort under setDefaultsCompare
RECURSIVE SortInsert(_, _)
SortInsert(x, s) ==
    IF s = <<>> THEN <<x>>
    ELSE IF setDefaultsCompare(x, Head(s)) < 0 THEN <<x>> \o s
    ELSE <<Head(s)>> \o SortInsert(x, Tail(s))

RECURSIVE orderedInstrumentList(_)
orderedInstrumentList(list) ==
    IF list = <<>> THEN <<>>
    ELSE SortInsert(list[Len(list)],
                    orderedInstrumentList(SubSeq(list, 1, Len(list) - 1)))

\* the condition under which the effect calls setDefaults
setDefaultsGuard(d, ev, insts) ==
    /\ d = ev.dateobs
    /\ d # ""
    /\ Len(insts) > 0
    /\ Len(ev.localizations) > 0

\* a variant that takes the name from the last localization of the event
setDefaults_NameOfLast(d, ev, insts) ==
    IF setDefaultsGuard(d, ev, insts)
    THEN <<orderedInstrumentList(insts)[1].id,
           ev.localizations[1].id,
           ev.localizations[Len(ev.localizations)].localization_name>>
    ELSE <<selectedInstrumentId, selectedLocalizationId,
           selectedLocalizationName>>

\* the selection <<instrument id, localization id, localization name>> after
\* the effect on [dispatch, gcnEvent] has run for the event ev
setDefaults(d, ev, insts) ==
    IF setDefaultsGuard(d, ev, insts)
    THEN <<orderedInstrumentList(insts)[1].id,
           ev.localizations[1].id,
           ev.localizations[1].localization_name>>
    ELSE <<selectedInstrumentId, selectedLocalizationId,
           selectedLocalizationName>>

----------------------------------------------------------------------------
\* fetchSkymapInstrument effect (lines 530-550).

\* a variant that checks the instrument alone
SkymapGuard_InstrumentOnly(instId, locId, insts, ev) ==
    instId \in DOMAIN instLookUp(insts)

\* both ids resolve against the lookup tables of the current render
SkymapGuard(instId, locId, insts, ev) ==
    /\ instId \in DOMAIN instLookUp(insts)
    /\ locId \in DOMAIN locLookUp(ev)

\* the requests in flight after the render in which the selection became
\* <<instId, locId>>: the effect runs only if one of its dependencies changed
fetchSkymapInstrument(instId, locId, insts, ev) ==
    IF <<instId, locId>> = <<selectedInstrumentId, selectedLocalizationId>>
    THEN skymapInFlight
    ELSE IF SkymapGuard(instId, locId, insts, ev)
         THEN skymapInFlight \cup {<<instId, locId>>}
         ELSE skymapInFlight

\* every <<instrument id, localization id>> a request can name
SkymapRequests ==
    InstrumentIds \X LocalizationIds

\* the overlay the backend returns for a request
Overlay(req) == req

NullOverlay == <<>>

----------------------------------------------------------------------------
\* What is rendered.

\* line 708: the form is rendered only for the requested event
FormRendered == ~gcnEvent.isNull /\ gcnEvent.dateobs = dateobs

\* line 872: the pane of the 'Query Form' tab, with the two selects, the
\* form and the Treasure Map buttons
QueryTabShown == FormRendered /\ tabIndex = QueryFormTab

\* line 949: the Treasure Map buttons replace the progress indicator
TreasureMapPanel ==
    QueryTabShown /\ ~gcnEvent.isNull /\ selectedLocalizationId # NullId

\* a variant with one flag for all instruments
SubmitButtonOffered_AnyInFlight ==
    TreasureMapPanel /\ isSubmittingTreasureMap = NullId

\* line 955: the 'Send to Treasure Map' button is rendered
SubmitButtonOffered ==
    TreasureMapPanel /\ isSubmittingTreasureMap # selectedInstrumentId

\* a variant in which the retract button is hidden by either flag
DeleteButtonOffered_EitherFlag ==
    /\ TreasureMapPanel
    /\ isDeletingTreasureMap # selectedInstrumentId
    /\ isSubmittingTreasureMap # selectedInstrumentId

\* line 975: the 'Retract from Treasure Map' button is rendered
DeleteButtonOffered ==
    TreasureMapPanel /\ isDeletingTreasureMap # selectedInstrumentId

\* lines 716-718 and 800-802: the plot and the display toggles are rendered
\* only for a selected localization the loaded event has
PlotGate == selectedLocalizationId \in DOMAIN locLookUp(gcnEvent)

\* the plot is shown in the left column at the md breakpoint and above,
\* and in the pane of the 'Skymap' tab below it
PlotRendered ==
    FormRendered /\ PlotGate /\ (isBig \/ tabIndex = SkymapTab)

\* lines 328-334
displayOptions ==
    {"localization", "sources", "galaxies", "instrument", "observations"}

\* a variant that leaves every option available
displayOptionsAvailable_AllTrue(option) == TRUE

\* lines 343-345 and 493-511: displayOptionsAvailable[option] at render.
\* The test on the instrument list is on the array itself, which is never
\* falsy, and would write the key "instruments", which is no option.
displayOptionsAvailable(option) ==
    CASE option = "sources" -> ~gcnEventSources.isNull
      [] option = "observations" -> ~gcnEventObservations.isNull
      [] option = "galaxies" -> ~gcnEventGalaxies.isNull
      [] option = "localization" ->
            ~(gcnEvent.isNull \/ Len(gcnEvent.localizations) = 0)
      [] OTHER -> TRUE

\* line 768: disabled={!displayOptionsAvailable[option]}
ToggleDisabled(option) == ~displayOptionsAvailable(option)

\* a variant of the Sources pane that does not look at the name
SourcesPane_IgnoresName ==
    IF ~(FormRendered /\ tabIndex = SourcesTab) THEN {}
    ELSE IF gcnEventSources.isNull THEN {"Fetching"}
    ELSE IF Len(gcnEventSources.items) = 0 THEN {"None"}
    ELSE {"Table"}

\* lines 1003-1026: what the pane of the 'Sources' tab renders
SourcesPane ==
    IF ~(FormRendered /\ tabIndex = SourcesTab) THEN {}
    ELSE IF gcnEventSources.isNull THEN {"Fetching"}
    ELSE IF Len(gcnEventSources.items) = 0 THEN {"None"}
    ELSE IF selectedLocalizationName # NoName THEN {"Table"}
    ELSE {}

\* a variant of the Galaxies pane without the test for an empty array
GalaxiesPane_NoEmptyCase ==
    IF ~(FormRendered /\ tabIndex = GalaxiesTab) THEN {}
    ELSE IF gcnEventGalaxies.isNull THEN {"Fetching"}
    ELSE {"Table"}

\* lines 1028-1049: what the pane of the 'Galaxies' tab renders
GalaxiesPane ==
    IF ~(FormRendered /\ tabIndex = GalaxiesTab) THEN {}
    ELSE IF gcnEventGalaxies.isNull THEN {"Fetching"}
    ELSE IF Len(gcnEventGalaxies.items) = 0 THEN {"None"}
    ELSE {"Table"}

\* lines 1051-1071: what the pane of the 'Observations' tab renders
ObservationsPane ==
    IF ~(FormRendered /\ tabIndex = ObservationsTab) THEN {}
    ELSE IF gcnEventObservations.isNull THEN {"Fetching"}
    ELSE IF Len(gcnEventObservations.items) = 0 THEN {"None"}
    ELSE {"Table"}

----------------------------------------------------------------------------
\* The query form (lines 575-685).

Targets == {"sources", "galaxies", "observations"}

\* A date string is its instant t and the suffix it is written with;
\* dayjs format("YYYY-MM-DD HH:mm:ss") writes none.
Suffixes == {"", "+00:00", ".000Z"}
Date(t, sfx) == [t |-> t, sfx |-> sfx]

\* String.prototype.replace of the first occurrence of pat by ""
Replace(d, pat) == IF d.sfx = pat THEN [d EXCEPT !.sfx = ""] ELSE d

\* string order on date strings of one layout: '+' sorts before '.'
SfxRank(sfx) == IF sfx = "" THEN 0 ELSE IF sfx = "+00:00" THEN 1 ELSE 2
StringGreater(a, b) ==
    \/ a.t > b.t
    \/ a.t = b.t /\ SfxRank(a.sfx) > SfxRank(b.sfx)

\* cumulative probabilities are counted in hundredths
CumprobMin == 0
CumprobMax == 101

\* the instants the form's date fields take, and its probabilities
FormTimes == {10, 17}
FormCumprobs == {-1, 0, 95, 101, 102}

\* formData as rjsf hands it to customValidate and onSubmit
FormDataOf(sd, ed, cp, ql) ==
    [startDate |-> sd, endDate |-> ed, localizationCumprob |-> cp,
     queryList |-> ql]

AllFormData ==
    {FormDataOf(Date(st, ss), Date(et, ""), cp, ql) :
        st \in FormTimes, ss \in Suffixes, et \in FormTimes,
        cp \in FormCumprobs, ql \in SUBSET Targets}

\* the form data the query specification edits
QueryFormData ==
    {fd \in AllFormData :
        /\ fd.startDate \in {Date(10, ""), Date(17, "+00:00")}
        /\ fd.endDate = Date(17, "")
        /\ fd.localizationCumprob \in {95, 102}}

\* property access: a key the object does not have reads as undefined
Field(obj, key) == IF key \in DOMAIN obj THEN Some(obj[key]) ELSE Undefined

\* a > b on two strings, false when either side is undefined
JsStringGreater(a, b) ==
    a # Undefined /\ b # Undefined /\ StringGreater(a[1], b[1])

\* errors.<key>.addError: the error object has one handler per key of
\* formData, so a key formData lacks is undefined and the call throws
addError(res, fd, key) ==
    IF res.threw THEN res
    ELSE IF key \in DOMAIN fd
         THEN [res EXCEPT !.errors = @ \cup {key}]
         ELSE [res EXCEPT !.threw = TRUE]

\* validate(formData, errors): the fields with an error, or threw
validate(fd) ==
    LET r0 == [threw |-> FALSE, errors |-> {}]
        r1 == IF JsStringGreater(Field(fd, "start_date"), Field(fd, "end_date"))
              THEN addError(r0, fd, "start_date")
              ELSE r0
        r2 == IF \/ fd.localizationCumprob < CumprobMin
                 \/ fd.localizationCumprob > CumprobMax
              THEN addError(r1, fd, "cumulative")
              ELSE r1
    IN  r2

\* rjsf calls onSubmit only if validation returned and found no error
ValidationPasses(fd) == ~validate(fd).threw /\ validate(fd).errors = {}

\* a filter record as handleSubmit builds it; absent fields are "" / FALSE
NoFilter ==
    [startDate |-> Undefined, endDate |-> Undefined,
     localizationCumprob |-> Undefined, queryList |-> Undefined,
     localizationName |-> NoName, includeGeoJSON |-> FALSE]

\* dayjs.utc(undefined) is the time of the render; the event dateobs else
EventTime(d) == IF d = "d1" THEN 10 ELSE IF d = "d2" THEN 20 ELSE 30
defaultStartDate(ev) == Date(EventTime(ev.dateobs), "")
defaultEndDate(ev) == Date(EventTime(ev.dateobs) + 7, "")

\* a variant that takes the name from selectedLocalizationName
PrepareFormData_NameFromState(fd) ==
    [startDate |-> Some(Replace(Replace(fd.startDate, "+00:00"), ".000Z")),
     endDate |-> Some(Replace(Replace(fd.endDate, "+00:00"), ".000Z")),
     localizationCumprob |-> Some(fd.localizationCumprob),
     queryList |-> Some(fd.queryList),
     localizationName |-> selectedLocalizationName,
     includeGeoJSON |-> FALSE]

\* lines 577-587: the formData object before the first fetch
PrepareFormData(fd) ==
    [startDate |-> Some(Replace(Replace(fd.startDate, "+00:00"), ".000Z")),
     endDate |-> Some(Replace(Replace(fd.endDate, "+00:00"), ".000Z")),
     localizationCumprob |-> Some(fd.localizationCumprob),
     queryList |-> Some(fd.queryList),
     localizationName |->
        IF selectedLocalizationId \in DOMAIN locLookUp(gcnEvent)
        THEN locLookUp(gcnEvent)[selectedLocalizationId].localization_name
        ELSE NoName,
     includeGeoJSON |-> FALSE]

\* a variant that fetches the galaxies before the observations
NextFetch_GalaxiesFirst(after, ql) ==
    IF after = "start" /\ "sources" \in ql THEN "sources"
    ELSE IF after \in {"start", "sources"} /\ "galaxies" \in ql
         THEN "galaxies"
    ELSE IF after \in {"start", "sources", "galaxies"} /\ "observations" \in ql
         THEN "observations"
    ELSE "done"

\* the fetch a handler awaits next, given the one it has just finished
\* ("start" before the first): sources, then observations, then galaxies
NextFetch(after, ql) ==
    IF after = "start" /\ "sources" \in ql THEN "sources"
    ELSE IF after \in {"start", "sources"} /\ "observations" \in ql
         THEN "observations"
    ELSE IF after \in {"start", "sources", "observations"} /\ "galaxies" \in ql
         THEN "galaxies"
    ELSE "done"

\* line 595: formData.includeGeoJSON = true runs once the sources step is past
WithGeoJSON(data, pc) ==
    IF pc = "sources" THEN data ELSE [data EXCEPT !.includeGeoJSON = TRUE]

\* a variant in which the form is never disabled
FormDisabled_Never == FALSE

\* line 940: disabled={isSubmitting}
FormDisabled == isSubmitting

----------------------------------------------------------------------------
\* The sources table, GcnEventSourcesPage (lines 139-212).

\* line 147: useState(100)
DefaultRowsPerPage == 100

\* the page sizes and the page numbers the table asks for
NumPerPages == (1..MaxNumPerPage) \cup {DefaultRowsPerPage}
PageNumbers == 1..MaxPageNumber

\* the filter data the table hands to its callbacks, as opaque values
FilterDatas == {"noFilter", "hasSpectrum"}

\* the sort the table hands to its callbacks: undefined, the object {} or
\* {name, direction}
SortData(kind, name, direction) ==
    [kind |-> kind, name |-> name, direction |-> direction]
NoSortData == SortData("undefined", Undefined, Undefined)
EmptySortData == SortData("empty", Undefined, Undefined)
SortDatas ==
    {NoSortData, EmptySortData} \cup
    {SortData("sort", Some("ra"), Some(d)) : d \in {"asc", "desc"}}

\* lines 1011-1018: GcnEventSourcesPage is mounted
SourcesTableMounted == "Table" \in SourcesPane

\* the data of a fetch of the table
TableData(d, filterData, name, pageNumber, numPerPage, sortBy, sortOrder) ==
    [dateobs |-> d, filterData |-> filterData, localizationName |-> name,
     pageNumber |-> pageNumber, numPerPage |-> numPerPage,
     sortBy |-> sortBy, sortOrder |-> sortOrder]

\* lines 150-158: the data the sorting callback dispatches
SortingData(sortData, filterData) ==
    TableData(dateobs, filterData, selectedLocalizationName, 1,
              sourcesRowsPerPage, sortData.name, sortData.direction)

\* lines 168-178: the data the pagination callback dispatches
PaginationData(pageNumber, numPerPage, sortData, filterData) ==
    IF sortData.kind = "sort"
    THEN TableData(dateobs, filterData, selectedLocalizationName,
                   pageNumber, numPerPage, sortData.name,
                   sortData.direction)
    ELSE TableData(dateobs, filterData, selectedLocalizationName,
                   pageNumber, numPerPage, Undefined, Undefined)

\* the state of GcnEventSourcesPage lives as long as it is mounted: a
\* step that leaves the table unmounted drops it, and the next mount
\* starts from useState(100) again
TableFrame ==
    /\ sourcesRowsPerPage' =
          IF SourcesTableMounted /\ SourcesTableMounted'
          THEN sourcesRowsPerPage ELSE DefaultRowsPerPage
    /\ UNCHANGED <<tableRequest, tableFetches, lastNumPerPage>>

InitTable ==
    /\ sourcesRowsPerPage = DefaultRowsPerPage
    /\ tableRequest = Undefined
    /\ tableFetches = 0
    /\ lastNumPerPage = Undefined

----------------------------------------------------------------------------
\* The API trigger selector, SkymapTriggerAPIDisplay (part_001).

AllocationIds == 1..MaxAllocationId

\* the lists of allocations the server answers with: none, or all of
\* them in an order that starts with any one of them
AllocationLists ==
    {<<>>} \cup
    {[i \in AllocationIds |-> ((first + i - 2) % MaxAllocationId) + 1] :
        first \in AllocationIds}

\* the trigger names the server knows, per allocation
AllocationTriggers ==
    <<(<<"t11", "t12">>), (<<"t21", "t22">>), (<<"t31", "t32">>),
      (<<"t41", "t42">>)>>

TriggerNames(id) ==
    {AllocationTriggers[id][k] : k \in DOMAIN AllocationTriggers[id]}

\* the catalogs the server answers with for one allocation
Catalogs(id) ==
    LET names == AllocationTriggers[id] IN
    {<<>>, <<names[2], names[1]>>}

\* lines 40-45: the state before any response
NoTriggers == <<"None">>
NoTriggerName == "None"

\* lines 125-127: the id of the option "Clear Selection"
ClearSelection == -1

\* the events of state.gcnEvents with the ids of their localizations
ApiEvent(id, localizations) == [id |-> id, localizations |-> localizations]
ApiEvents == <<ApiEvent(1, <<2, 1>>), ApiEvent(2, <<>>)>>

ApiEventIds == {ApiEvents[i].id : i \in DOMAIN ApiEvents}
ApiLocalizationIds ==
    UNION {{ApiEvents[i].localizations[k] :
               k \in DOMAIN ApiEvents[i].localizations} :
              i \in DOMAIN ApiEvents}

\* lines 117-121
gcnEventsLookUp ==
    [id \in {gcnEvents[i].id : i \in DOMAIN gcnEvents} |->
        LET i == CHOOSE i \in DOMAIN gcnEvents :
                    /\ gcnEvents[i].id = id
                    /\ \A j \in DOMAIN gcnEvents :
                          gcnEvents[j].id = id => j <= i
        IN gcnEvents[i]]

\* lines 123-131: the values of the options of the event select
gcnEventsSelect ==
    <<ClearSelection>> \o [i \in DOMAIN gcnEvents |-> gcnEvents[i].id]

\* lines 104-115: the selects and the buttons are rendered; the groups
\* and the telescopes are taken as loaded
SelectorRendered ==
    Len(instrumentList) > 0 /\ Len(allocationListApiObsplan) > 0

\* line 69: data[0]?.id, NullId for undefined
FirstAllocationId(data) == IF Len(data) > 0 THEN data[1] ELSE NullId

\* lines 86-102, up to the await: the requests outstanding after the
\* effect on [selectedAllocationId] has run for the id of the render,
\* given the id of the render before and the list of the store
getTriggers(before, id, list, inFlight) ==
    IF id # before /\ id # NullId /\ Len(list) > 0
    THEN [inFlight EXCEPT ![id] = @ + 1]
    ELSE inFlight

\* a variant without the branch for a response without names
TriggersOf_NoFallback(names) ==
    [triggerList |-> names,
     selectedTriggerName |->
        IF Len(names) > 0 THEN names[1] ELSE NoTriggerName]

\* a variant that keeps ["None"] whatever the catalog
TriggersOf_AlwaysNone(names) ==
    [triggerList |-> NoTriggers, selectedTriggerName |-> NoTriggerName]

\* lines 92-98: the state set from the trigger names of a response
TriggersOf(names) ==
    IF Len(names) > 0
    THEN [triggerList |-> names, selectedTriggerName |-> names[1]]
    ELSE [triggerList |-> NoTriggers, selectedTriggerName |-> NoTriggerName]

\* lines 218-219: the field gcneventid after a choice, NullId for ""
GcnEventIdField(value) == IF value = ClearSelection THEN NullId ELSE value

\* lines 220-224: the field localizationid after a choice, NullId for ""
LocalizationIdField(value) ==
    IF value = ClearSelection THEN NullId
    ELSE IF value \notin DOMAIN gcnEventsLookUp THEN NullId
    ELSE IF Len(gcnEventsLookUp[value].localizations) = 0 THEN NullId
    ELSE gcnEventsLookUp[value].localizations[1]

\* line 255: disabled={!selectedGcnEventId}; ClearSelection is truthy
LocalizationSelectDisabled == selectedGcnEventId = NullId

\* lines 257-267: the options of the localization select
LocalizationOptions ==
    IF selectedGcnEventId \in DOMAIN gcnEventsLookUp
    THEN gcnEventsLookUp[selectedGcnEventId].localizations
    ELSE <<>>

\* a variant that sends the event in place of the localization
AddData_EventId ==
    [kind |-> "add", allocation_id |-> selectedAllocationId,
     localization_id |-> gcneventid, trigger_name |-> NoName]

\* lines 158-161: the data of an add request
AddData ==
    [kind |-> "add", allocation_id |-> selectedAllocationId,
     localization_id |-> localizationid, trigger_name |-> NoName]

\* lines 167-171: the allocation and the data of a delete request
DeleteData ==
    [kind |-> "delete", allocation_id |-> selectedAllocationId,
     localization_id |-> NullId, trigger_name |-> selectedTriggerName]

InitTrigger ==
    /\ allocationListApiObsplan = <<>>
    /\ allocationsFetch = "pending"
    /\ selectedAllocationId = NullId
    /\ triggerList = NoTriggers
    /\ selectedTriggerName = NoTriggerName
    /\ triggerInFlight = [id \in 0..MaxAllocationId |-> 0]
    /\ gcnEvents = <<>>
    /\ selectedGcnEventId = NullId
    /\ gcneventid = NullId
    /\ localizationid = NullId
    /\ triggerRequest = Undefined

----------------------------------------------------------------------------
\* The recent-events widget, RecentGcnEvents.jsx.

\* lines 63-65
defaultPrefs == [maxNumEvents |-> "5"]

\* the preferences the profile holds for the widget
StoredPrefs == {[maxNumEvents |-> v] : v \in {"1", "5", "10"}}

\* the lists state.recentGcnEvents holds, as the dateobs of the events
RecentLists == SeqsUpTo(Dateobs, MaxRecentEvents)

\* lines 71-73
recentEventsPrefs ==
    IF recentGcnEventsPrefs = Undefined THEN defaultPrefs
    ELSE recentGcnEventsPrefs[1]

\* lines 92-94: initialValues of WidgetPrefsDialog
initialValues == [maxNumEvents |-> recentEventsPrefs.maxNumEvents]

\* a variant that renders no more rows than the preference allows
RecentRows_Truncated(list) ==
    [i \in 1..(IF Len(list) > 1 THEN 1 ELSE Len(list)) |->
        [key |-> list[i], to |-> <<"gcn_events", list[i]>>]]

\* lines 104-119: the <li> elements, with their key and the route of
\* their <Link>, /gcn_events/<dateobs>, as its two segments
RecentRows(list) ==
    [i \in DOMAIN list |->
        [key |-> list[i], to |-> <<"gcn_events", list[i]>>]]

InitRecent ==
    /\ recentGcnEvents = <<>>
    /\ recentGcnEventsPrefs = Undefined
    /\ recentMounted = FALSE
    /\ recentFetches = 0

----------------------------------------------------------------------------
\* Initial state: the component has mounted over an empty store.

Init ==
    /\ dateobs = "d1"
    /\ gcnEvent = NullEvent
    /\ instrumentList = <<>>
    /\ selectedInstrumentId = NullId
    /\ selectedLocalizationId = NullId
    /\ selectedLocalizationName = NoName
    /\ isSubmitting = FALSE
    /\ isSubmittingTreasureMap = NullId
    /\ isDeletingTreasureMap = NullId
    /\ skymapInstrument = NullOverlay
    /\ skymapInFlight = {}
    /\ tmSubmitInFlight = [i \in 0..MaxInstrumentId |-> 0]
    /\ tmDeleteInFlight = [i \in 0..MaxInstrumentId |-> 0]
    /\ formData = FormDataOf(Date(10, ""), Date(17, ""), 95, {"sources"})
    /\ submitHandlers = <<>>
    /\ formDataState =
          [NoFilter EXCEPT !.startDate = Some(defaultStartDate(NullEvent)),
                           !.endDate = Some(defaultEndDate(NullEvent))]
    /\ sourceFilteringState = NoFilter
    /\ gcnEventSources = NullCollection
    /\ gcnEventGalaxies = NullCollection
    /\ gcnEventObservations = NullCollection
    /\ tabIndex = QueryFormTab
    /\ isBig = FALSE
    /\ InitTable
    /\ InitTrigger
    /\ InitRecent

----------------------------------------------------------------------------
\* The store and the props change.

\* the route changes to another event; the component stays mounted
Navigate(d) ==
    /\ d # dateobs
    /\ dateobs' = d
    /\ UNCHANGED <<componentVars,
                   resultVars, viewVars, storeVars, selectionVars,
                   skymapVars, treasureMapVars, queryVars>>
    /\ TableFrame

\* state.instruments.instrumentList is replaced; no effect depends on it
LoadInstruments(l) ==
    /\ l # instrumentList
    /\ instrumentList' = l
    /\ UNCHANGED <<componentVars, resultVars, viewVars,
                   dateobs, gcnEvent, selectionVars, skymapVars,
                   treasureMapVars, queryVars>>
    /\ TableFrame

\* state.gcnEvent is replaced: the effect on [dispatch, gcnEvent] runs
\* setDefaults, and the re-render it causes runs the sky-map effect
LoadGcnEvent(ev) ==
    LET sel == setDefaults(dateobs, ev, instrumentList) IN
    /\ gcnEvent' = ev
    /\ selectedInstrumentId' = sel[1]
    /\ selectedLocalizationId' = sel[2]
    /\ selectedLocalizationName' = sel[3]
    /\ skymapInFlight' =
          fetchSkymapInstrument(sel[1], sel[2], instrumentList, ev)
    /\ UNCHANGED <<componentVars, resultVars, viewVars,
                   dateobs, instrumentList, skymapInstrument, treasureMapVars,
                   queryVars>>
    /\ TableFrame

----------------------------------------------------------------------------
\* The user selects (lines 566-573).

handleSelectedInstrumentChange(id) ==
    /\ QueryTabShown
    /\ id \in DOMAIN instLookUp(instrumentList)
    /\ id # selectedInstrumentId
    /\ selectedInstrumentId' = id
    /\ skymapInFlight' =
          fetchSkymapInstrument(id, selectedLocalizationId, instrumentList,
                                gcnEvent)
    /\ UNCHANGED <<componentVars, resultVars, viewVars,
                   dateobs, storeVars, selectedLocalizationId,
                   selectedLocalizationName, skymapInstrument, treasureMapVars,
                   queryVars>>
    /\ TableFrame

handleSelectedLocalizationChange(id) ==
    /\ QueryTabShown
    /\ id \in DOMAIN locLookUp(gcnEvent)
    /\ id # selectedLocalizationId
    /\ selectedLocalizationId' = id
    /\ selectedLocalizationName' = locLookUp(gcnEvent)[id].localization_name
    /\ skymapInFlight' =
          fetchSkymapInstrument(selectedInstrumentId, id, instrumentList,
                                gcnEvent)
    /\ UNCHANGED <<componentVars, resultVars, viewVars,
                   dateobs, storeVars, selectedInstrumentId, skymapInstrument,
                   treasureMapVars, queryVars>>
    /\ TableFrame

\* the promise of one sky-map request resolves (line 537)
SkymapResponse(req) ==
    /\ req \in skymapInFlight
    /\ skymapInstrument' = Overlay(req)
    /\ skymapInFlight' = skymapInFlight \ {req}
    /\ UNCHANGED <<componentVars, resultVars, viewVars,
                   dateobs, storeVars, selectionVars, treasureMapVars,
                   queryVars>>
    /\ TableFrame

----------------------------------------------------------------------------
\* Treasure Map (lines 467-491).

\* lines 469-475 and 482-488: the data object of a Treasure Map request,
\* read off filterParams field by field; a field filterParams does not
\* have is undefined
TreasureMapData(filterParams) ==
    [startDate |-> filterParams.startDate,
     endDate |-> filterParams.endDate,
     localizationCumprob |-> filterParams.localizationCumprob,
     localizationName |-> filterParams.localizationName,
     localizationDateobs |-> Field(filterParams, "localizationDateobs")]

RECURSIVE SumTo(_, _)
SumTo(f, n) == IF n < 0 THEN 0 ELSE f[n] + SumTo(f, n - 1)

\* the requests of one kind outstanding, over all instruments
Outstanding(f) == SumTo(f, MaxInstrumentId)

\* the button is clicked: the handler runs up to its await
handleSubmitTreasureMap ==
    /\ SubmitButtonOffered
    /\ Outstanding(tmSubmitInFlight) < MaxTMInFlight
    /\ isSubmittingTreasureMap' = selectedInstrumentId
    /\ tmSubmitInFlight' =
          [tmSubmitInFlight EXCEPT ![selectedInstrumentId] = @ + 1]
    /\ UNCHANGED <<componentVars, resultVars, viewVars,
                   dateobs, storeVars, selectionVars, skymapVars,
                   isDeletingTreasureMap, tmDeleteInFlight, queryVars>>
    /\ TableFrame

\* a submit request for id is acknowledged: the handler resumes
SubmitTreasureMapDone(id) ==
    /\ tmSubmitInFlight[id] > 0
    /\ tmSubmitInFlight' = [tmSubmitInFlight EXCEPT ![id] = @ - 1]
    /\ isSubmittingTreasureMap' = NullId
    /\ UNCHANGED <<componentVars, resultVars, viewVars,
                   dateobs, storeVars, selectionVars, skymapVars,
                   isDeletingTreasureMap, tmDeleteInFlight, queryVars>>
    /\ TableFrame

handleDeleteTreasureMap ==
    /\ DeleteButtonOffered
    /\ Outstanding(tmDeleteInFlight) < MaxTMInFlight
    /\ isDeletingTreasureMap' = selectedInstrumentId
    /\ tmDeleteInFlight' =
          [tmDeleteInFlight EXCEPT ![selectedInstrumentId] = @ + 1]
    /\ UNCHANGED <<componentVars, resultVars, viewVars,
                   dateobs, storeVars, selectionVars, skymapVars,
                   isSubmittingTreasureMap, tmSubmitInFlight, queryVars>>
    /\ TableFrame

DeleteTreasureMapDone(id) ==
    /\ tmDeleteInFlight[id] > 0
    /\ tmDeleteInFlight' = [tmDeleteInFlight EXCEPT ![id] = @ - 1]
    /\ isDeletingTreasureMap' = NullId
    /\ UNCHANGED <<componentVars, resultVars, viewVars,
                   dateobs, storeVars, selectionVars, skymapVars,
                   isSubmittingTreasureMap, tmSubmitInFlight, queryVars>>
    /\ TableFrame

----------------------------------------------------------------------------
\* The query form (lines 575-611, 932-942).

\* the user edits the form; its fields are disabled while isSubmitting
FormChange(fd) ==
    /\ QueryTabShown
    /\ ~FormDisabled
    /\ fd # formData
    /\ formData' = fd
    /\ UNCHANGED <<componentVars, resultVars, viewVars,
                   dateobs, storeVars, selectionVars, skymapVars,
                   treasureMapVars, isSubmitting, submitHandlers,
                   formDataState, sourceFilteringState>>
    /\ TableFrame

RemoveAt(s, i) == SubSeq(s, 1, i - 1) \o SubSeq(s, i + 1, Len(s))

\* the form is submitted: handleSubmit runs up to its first await, or to
\* its end when queryList names no target
handleSubmit ==
    LET data == PrepareFormData(formData)
        pc == NextFetch("start", formData.queryList)
    IN
    /\ QueryTabShown
    /\ ~FormDisabled
    /\ ValidationPasses(formData)
    /\ Len(submitHandlers) < MaxHandlers
    /\ IF pc = "done"
       THEN /\ formDataState' = WithGeoJSON(data, pc)
            /\ isSubmitting' = FALSE
            /\ submitHandlers' = submitHandlers
       ELSE /\ formDataState' = formDataState
            /\ isSubmitting' = TRUE
            /\ submitHandlers' =
                  Append(submitHandlers,
                         [pc |-> pc, sent |-> {pc},
                          data |-> WithGeoJSON(data, pc),
                          dateobs |-> gcnEvent.dateobs])
    /\ UNCHANGED <<componentVars, resultVars, viewVars,
                   dateobs, storeVars, selectionVars, skymapVars,
                   treasureMapVars, formData, sourceFilteringState>>
    /\ TableFrame

\* the store after the response to the fetch of one target, with n items,
\* has been stored in the slice of that target
StoreResponse(target, n) ==
    /\ gcnEventSources' =
          IF target = "sources" THEN Collection(n) ELSE gcnEventSources
    /\ gcnEventObservations' =
          IF target = "observations" THEN Collection(n)
          ELSE gcnEventObservations
    /\ gcnEventGalaxies' =
          IF target = "galaxies" THEN Collection(n) ELSE gcnEventGalaxies

\* the fetch the i-th handler awaits resolves with n items: the response is
\* stored and the handler runs to its next await or to its end
FetchDone(i, n) ==
    LET h == submitHandlers[i]
        pc == NextFetch(h.pc, h.data.queryList[1])
        data == WithGeoJSON(h.data, pc)
    IN
    /\ i \in DOMAIN submitHandlers
    /\ StoreResponse(h.pc, n)
    /\ sourceFilteringState' =
          IF h.pc = "sources" THEN data ELSE sourceFilteringState
    /\ IF pc = "done"
       THEN /\ formDataState' = data
            /\ isSubmitting' = FALSE
            /\ submitHandlers' = RemoveAt(submitHandlers, i)
       ELSE /\ formDataState' = formDataState
            /\ isSubmitting' = isSubmitting
            /\ submitHandlers' =
                  [submitHandlers EXCEPT
                      ![i] = [h EXCEPT !.pc = pc, !.sent = @ \cup {pc},
                                       !.data = data]]
    /\ UNCHANGED <<componentVars,
                   viewVars, dateobs, storeVars, selectionVars, skymapVars,
                   treasureMapVars, formData>>
    /\ TableFrame

\* the fetch the i-th handler awaits rejects: the handler ends at the
\* await, no later statement runs
FetchFailed(i) ==
    /\ i \in DOMAIN submitHandlers
    /\ submitHandlers' = RemoveAt(submitHandlers, i)
    /\ UNCHANGED <<componentVars, resultVars, viewVars,
                   dateobs, storeVars, selectionVars, skymapVars,
                   treasureMapVars, formData, isSubmitting, formDataState,
                   sourceFilteringState>>
    /\ TableFrame

----------------------------------------------------------------------------
\* Tabs (lines 360, 374-376, 450-456).

\* a variant without the effect
TabEffect_Absent(big, tab) == tab

\* the effect that runs after every render: no 'Skymap' tab at md and above
TabEffect(big, tab) ==
    IF big /\ tab = SkymapTab THEN QueryFormTab ELSE tab

\* the user clicks a tab; the 'Skymap' tab is displayed below md only
handleChangeTab(newValue) ==
    /\ FormRendered
    /\ newValue # tabIndex
    /\ newValue = SkymapTab => ~isBig
    /\ tabIndex' = TabEffect(isBig, newValue)
    /\ UNCHANGED <<componentVars,
                   resultVars, isBig, dateobs, storeVars, selectionVars,
                   skymapVars, treasureMapVars, queryVars>>
    /\ TableFrame

\* the window crosses the md breakpoint: useMediaQuery re-renders
MediaQueryChange(big) ==
    /\ big # isBig
    /\ isBig' = big
    /\ tabIndex' = TabEffect(big, tabIndex)
    /\ UNCHANGED <<componentVars, resultVars, dateobs, storeVars, selectionVars,
                   skymapVars, treasureMapVars, queryVars>>
    /\ TableFrame

----------------------------------------------------------------------------
\* The callbacks of the sources table (lines 149-180).

\* the table asks for a sort: page 1 at the page size of the state
handleSourcesTableSorting(sortData, filterData) ==
    /\ SourcesTableMounted
    /\ tableFetches < MaxTableFetches
    /\ tableRequest' = Some(SortingData(sortData, filterData))
    /\ tableFetches' = tableFetches + 1
    /\ UNCHANGED <<componentVars, formVars, sourcesRowsPerPage,
                   lastNumPerPage>>

\* the table asks for a page: the page size is kept for later sorts
handleSourcesTablePagination(pageNumber, numPerPage, sortData, filterData) ==
    /\ SourcesTableMounted
    /\ tableFetches < MaxTableFetches
    /\ sourcesRowsPerPage' = numPerPage
    /\ lastNumPerPage' = Some(numPerPage)
    /\ tableRequest' =
          Some(PaginationData(pageNumber, numPerPage, sortData, filterData))
    /\ tableFetches' = tableFetches + 1
    /\ UNCHANGED <<componentVars, formVars>>

\* a fetch of the table resolves with n sources, which the store keeps;
\* without sources the table is unmounted
TableFetchDone(n) ==
    /\ tableFetches > 0
    /\ StoreResponse("sources", n)
    /\ tableFetches' = tableFetches - 1
    /\ UNCHANGED <<componentVars, dateobs, storeVars, selectionVars,
                   skymapVars, treasureMapVars, queryVars, viewVars,
                   tableRequest, lastNumPerPage>>
    /\ sourcesRowsPerPage' =
          IF SourcesTableMounted /\ SourcesTableMounted'
          THEN sourcesRowsPerPage ELSE DefaultRowsPerPage

----------------------------------------------------------------------------
\* The API trigger selector (part_001, lines 58-102 and 157-244).

\* the store after the allocations of a response have been stored
StoreAllocations(data) == allocationListApiObsplan' = data

\* state.gcnEvents is replaced (the fetch of lines 79-84 resolves)
LoadGcnEvents(events) ==
    /\ events # gcnEvents
    /\ gcnEvents' = events
    /\ UNCHANGED <<formVars, tableVars, recentVars,
                   allocationListApiObsplan, allocationsFetch,
                   selectedAllocationId, triggerList, selectedTriggerName,
                   triggerInFlight, selectedGcnEventId, gcneventid,
                   localizationid, triggerRequest>>

\* lines 58-77: the fetch of the allocations resolves with data, the
\* first allocation is selected and the effect on [selectedAllocationId]
\* runs in the render that follows
AllocationsResponse(data) ==
    LET id == FirstAllocationId(data) IN
    /\ allocationsFetch = "pending"
    /\ allocationsFetch' = "done"
    /\ StoreAllocations(data)
    /\ selectedAllocationId' = id
    /\ triggerInFlight' =
          getTriggers(selectedAllocationId, id, data, triggerInFlight)
    /\ UNCHANGED <<formVars, tableVars, recentVars, triggerList,
                   selectedTriggerName, gcnEvents, selectedGcnEventId,
                   gcneventid, localizationid, triggerRequest>>

\* lines 174-176 and 86-102: the user selects an allocation
handleSelectedAllocationChange(id) ==
    /\ SelectorRendered
    /\ \E i \in DOMAIN allocationListApiObsplan :
          allocationListApiObsplan[i] = id
    /\ id # selectedAllocationId
    /\ SumTo(triggerInFlight, MaxAllocationId) < MaxTriggerInFlight
    /\ selectedAllocationId' = id
    /\ triggerInFlight' =
          getTriggers(selectedAllocationId, id, allocationListApiObsplan,
                      triggerInFlight)
    /\ UNCHANGED <<formVars, tableVars, recentVars,
                   allocationListApiObsplan, allocationsFetch, triggerList,
                   selectedTriggerName, gcnEvents, selectedGcnEventId,
                   gcneventid, localizationid, triggerRequest>>

\* lines 89-98: a catalog request for id is answered with names
TriggerResponse(id, names) ==
    /\ triggerInFlight[id] > 0
    /\ triggerInFlight' = [triggerInFlight EXCEPT ![id] = @ - 1]
    /\ triggerList' = TriggersOf(names).triggerList
    /\ selectedTriggerName' = TriggersOf(names).selectedTriggerName
    /\ UNCHANGED <<formVars, tableVars, recentVars,
                   allocationListApiObsplan, allocationsFetch,
                   selectedAllocationId, gcnEvents, selectedGcnEventId,
                   gcneventid, localizationid, triggerRequest>>

\* lines 178-180: the user selects a trigger name of the list
handleSelectedTriggerNameChange(name) ==
    /\ SelectorRendered
    /\ \E i \in DOMAIN triggerList : triggerList[i] = name
    /\ name # selectedTriggerName
    /\ selectedTriggerName' = name
    /\ UNCHANGED <<formVars, tableVars, recentVars,
                   allocationListApiObsplan, allocationsFetch,
                   selectedAllocationId, triggerList, triggerInFlight,
                   gcnEvents, selectedGcnEventId, gcneventid, localizationid,
                   triggerRequest>>

\* lines 215-227: the user chooses an option of the event select
gcneventidOnChange(value) ==
    /\ SelectorRendered
    /\ \E i \in DOMAIN gcnEventsSelect : gcnEventsSelect[i] = value
    /\ value # gcneventid
    /\ gcneventid' = GcnEventIdField(value)
    /\ localizationid' = LocalizationIdField(value)
    /\ selectedGcnEventId' = value
    /\ UNCHANGED <<formVars, tableVars, recentVars,
                   allocationListApiObsplan, allocationsFetch,
                   selectedAllocationId, triggerList, selectedTriggerName,
                   triggerInFlight, gcnEvents, triggerRequest>>

\* lines 251-253: the user chooses an option of the localization select
localizationidOnChange(value) ==
    /\ SelectorRendered
    /\ ~LocalizationSelectDisabled
    /\ \E i \in DOMAIN LocalizationOptions : LocalizationOptions[i] = value
    /\ value # localizationid
    /\ localizationid' = value
    /\ UNCHANGED <<formVars, tableVars, recentVars,
                   allocationListApiObsplan, allocationsFetch,
                   selectedAllocationId, triggerList, selectedTriggerName,
                   triggerInFlight, gcnEvents, selectedGcnEventId,
                   gcneventid, triggerRequest>>

\* lines 157-164: 'Add trigger' is clicked
handleAdd ==
    /\ SelectorRendered
    /\ triggerRequest' = Some(AddData)
    /\ UNCHANGED <<formVars, tableVars, recentVars,
                   allocationListApiObsplan, allocationsFetch,
                   selectedAllocationId, triggerList, selectedTriggerName,
                   triggerInFlight, gcnEvents, selectedGcnEventId,
                   gcneventid, localizationid>>

\* lines 166-172: 'Delete trigger' is clicked
handleDelete ==
    /\ SelectorRendered
    /\ triggerRequest' = Some(DeleteData)
    /\ UNCHANGED <<formVars, tableVars, recentVars,
                   allocationListApiObsplan, allocationsFetch,
                   selectedAllocationId, triggerList, selectedTriggerName,
                   triggerInFlight, gcnEvents, selectedGcnEventId,
                   gcneventid, localizationid>>

----------------------------------------------------------------------------
\* The recent-events widget (RecentGcnEvents.jsx, lines 70-79).

\* the first render: the effect on [dispatch] asks for the list
RecentMount ==
    /\ ~recentMounted
    /\ recentMounted' = TRUE
    /\ recentFetches' = recentFetches + 1
    /\ UNCHANGED <<formVars, tableVars, triggerVars, recentGcnEvents,
                   recentGcnEventsPrefs>>

\* state.recentGcnEvents is replaced: the widget renders again, the
\* effect does not run
LoadRecentGcnEvents(list) ==
    /\ list # recentGcnEvents
    /\ recentGcnEvents' = list
    /\ UNCHANGED <<formVars, tableVars, triggerVars, recentGcnEventsPrefs,
                   recentMounted, recentFetches>>

\* the preferences of the profile are replaced
LoadPreferences(prefs) ==
    /\ prefs # recentGcnEventsPrefs
    /\ recentGcnEventsPrefs' = prefs
    /\ UNCHANGED <<formVars, tableVars, triggerVars, recentGcnEvents,
                   recentMounted, recentFetches>>

----------------------------------------------------------------------------
\* Specifications.

\* the selection controller with the sky-map overlay fetch
Next ==
    \/ \E d \in Dateobs : Navigate(d)
    \/ \E ev \in Events : LoadGcnEvent(ev)
    \/ \E l \in ControllerInstrumentLists : LoadInstruments(l)
    \/ \E id \in InstrumentIds : handleSelectedInstrumentChange(id)
    \/ \E id \in LocalizationIds : handleSelectedLocalizationChange(id)
    \/ \E req \in SkymapRequests : SkymapResponse(req)

Spec == Init /\ [][Next]_vars

\* the same, with what the component itself has scheduled taking place: a
\* sky-map request that was sent is answered.  The loads, the navigation
\* and the user's selections come from outside and may never happen again.
SpecLive ==
    Spec /\ WF_vars(\E req \in SkymapRequests : SkymapResponse(req))

\* the selection controller with the Treasure Map buttons
NextTM ==
    \/ \E d \in Dateobs : Navigate(d)
    \/ \E ev \in Events : LoadGcnEvent(ev)
    \/ \E l \in TreasureMapInstrumentLists : LoadInstruments(l)
    \/ \E id \in InstrumentIds : handleSelectedInstrumentChange(id)
    \/ \E id \in LocalizationIds : handleSelectedLocalizationChange(id)
    \/ handleSubmitTreasureMap
    \/ \E id \in InstrumentIds : SubmitTreasureMapDone(id)
    \/ handleDeleteTreasureMap
    \/ \E id \in InstrumentIds : DeleteTreasureMapDone(id)

SpecTM == Init /\ [][NextTM]_vars

\* the derivation of the defaults over every instrument list
NextDefaults ==
    \/ \E ev \in Events : LoadGcnEvent(ev)
    \/ \E l \in AllInstrumentLists : LoadInstruments(l)

SpecDefaults == Init /\ [][NextDefaults]_vars

\* the query form and its submit chain
NextQuery ==
    \/ \E ev \in Events : LoadGcnEvent(ev)
    \/ \E l \in QueryInstrumentLists : LoadInstruments(l)
    \/ \E fd \in QueryFormData : FormChange(fd)
    \/ handleSubmit
    \/ \E i \in 1..MaxHandlers : FetchDone(i, MaxItems)
    \/ \E i \in 1..MaxHandlers : FetchFailed(i)

SpecQuery == Init /\ [][NextQuery]_vars

\* validation and submission of every form content: the form holds any
\* data the user has typed when the event arrives
InitValidate ==
    /\ dateobs = "d1"
    /\ gcnEvent = NullEvent
    /\ instrumentList = <<>>
    /\ selectedInstrumentId = NullId
    /\ selectedLocalizationId = NullId
    /\ selectedLocalizationName = NoName
    /\ isSubmitting = FALSE
    /\ isSubmittingTreasureMap = NullId
    /\ isDeletingTreasureMap = NullId
    /\ skymapInstrument = NullOverlay
    /\ skymapInFlight = {}
    /\ tmSubmitInFlight = [i \in 0..MaxInstrumentId |-> 0]
    /\ tmDeleteInFlight = [i \in 0..MaxInstrumentId |-> 0]
    /\ formData \in AllFormData
    /\ submitHandlers = <<>>
    /\ formDataState =
          [NoFilter EXCEPT !.startDate = Some(defaultStartDate(NullEvent)),
                           !.endDate = Some(defaultEndDate(NullEvent))]
    /\ sourceFilteringState = NoFilter
    /\ gcnEventSources = NullCollection
    /\ gcnEventGalaxies = NullCollection
    /\ gcnEventObservations = NullCollection
    /\ tabIndex = QueryFormTab
    /\ isBig = FALSE
    /\ InitTable
    /\ InitTrigger
    /\ InitRecent

NextValidate ==
    \/ \E ev \in Events : LoadGcnEvent(ev)
    \/ handleSubmit
    \/ \E i \in 1..MaxHandlers : FetchDone(i, MaxItems)
    \/ \E i \in 1..MaxHandlers : FetchFailed(i)

SpecValidate == InitValidate /\ [][NextValidate]_vars

\* the query targets the results specification submits
ResultsFormData ==
    {FormDataOf(Date(10, ""), Date(17, ""), 95, {target}) : target \in Targets}

\* the result panes and the display toggles: events and instruments load
\* in any order, the user navigates, submits filters and changes tab, the
\* window is resized, and the fetches return collections of any size
NextResults ==
    \/ \E d \in Dateobs : Navigate(d)
    \/ \E ev \in Events : LoadGcnEvent(ev)
    \/ \E l \in QueryInstrumentLists \cup {<<>>} : LoadInstruments(l)
    \/ \E fd \in ResultsFormData : FormChange(fd)
    \/ handleSubmit
    \/ \E i \in 1..MaxHandlers, n \in ResultSizes : FetchDone(i, n)
    \/ \E newValue \in Tabs : handleChangeTab(newValue)
    \/ \E big \in BOOLEAN : MediaQueryChange(big)

SpecResults == Init /\ [][NextResults]_vars

\* the query targets the payload specification submits
PayloadFormData ==
    {FormDataOf(Date(10, ""), Date(17, ""), 95, ql) : ql \in SUBSET Targets}

\* the payload of the query fetches: the user navigates between events,
\* selects a localization and submits filters
NextPayload ==
    \/ \E d \in Dateobs : Navigate(d)
    \/ \E ev \in Events : LoadGcnEvent(ev)
    \/ \E l \in QueryInstrumentLists : LoadInstruments(l)
    \/ \E id \in LocalizationIds : handleSelectedLocalizationChange(id)
    \/ \E fd \in PayloadFormData : FormChange(fd)
    \/ handleSubmit
    \/ \E i \in 1..MaxHandlers : FetchDone(i, MaxItems)
    \/ \E i \in 1..MaxHandlers : FetchFailed(i)

SpecPayload == Init /\ [][NextPayload]_vars

\* the query form together with the Treasure Map buttons
NextFlags ==
    \/ \E ev \in Events : LoadGcnEvent(ev)
    \/ \E l \in QueryInstrumentLists : LoadInstruments(l)
    \/ \E id \in InstrumentIds : handleSelectedInstrumentChange(id)
    \/ handleSubmit
    \/ \E i \in 1..MaxHandlers : FetchDone(i, MaxItems)
    \/ \E i \in 1..MaxHandlers : FetchFailed(i)
    \/ handleSubmitTreasureMap
    \/ \E id \in InstrumentIds : SubmitTreasureMapDone(id)
    \/ handleDeleteTreasureMap
    \/ \E id \in InstrumentIds : DeleteTreasureMapDone(id)

SpecFlags == Init /\ [][NextFlags]_vars

\* the sources table: a filter is submitted, the user changes tab, and
\* the table asks for pages and sorts
NextTable ==
    \/ \E ev \in Events : LoadGcnEvent(ev)
    \/ \E l \in QueryInstrumentLists : LoadInstruments(l)
    \/ handleSubmit
    \/ \E i \in 1..MaxHandlers, n \in ResultSizes : FetchDone(i, n)
    \/ \E newValue \in Tabs : handleChangeTab(newValue)
    \/ \E sortData \in SortDatas \ {NoSortData}, filterData \in FilterDatas :
          handleSourcesTableSorting(sortData, filterData)
    \/ \E pageNumber \in PageNumbers, numPerPage \in NumPerPages,
          sortData \in SortDatas, filterData \in FilterDatas :
          handleSourcesTablePagination(pageNumber, numPerPage, sortData,
                                       filterData)
    \/ \E n \in ResultSizes : TableFetchDone(n)

SpecTable == Init /\ [][NextTable]_vars

\* the API trigger selector: the stores load, the user selects and
\* clicks, the catalog requests are answered in any order
NextTrigger ==
    \/ \E l \in QueryInstrumentLists : LoadInstruments(l)
    \/ \E events \in {ApiEvents} : LoadGcnEvents(events)
    \/ \E data \in AllocationLists : AllocationsResponse(data)
    \/ \E id \in AllocationIds : handleSelectedAllocationChange(id)
    \/ \E id \in AllocationIds :
          \E names \in Catalogs(id) : TriggerResponse(id, names)
    \/ \E id \in AllocationIds :
          \E name \in TriggerNames(id) :
             handleSelectedTriggerNameChange(name)
    \/ \E value \in {ClearSelection} \cup ApiEventIds :
          gcneventidOnChange(value)
    \/ \E value \in ApiLocalizationIds : localizationidOnChange(value)
    \/ handleAdd
    \/ handleDelete

SpecTrigger == Init /\ [][NextTrigger]_vars

\* the recent-events widget over every list and preference of the store
NextRecent ==
    \/ RecentMount
    \/ \E list \in RecentLists : LoadRecentGcnEvents(list)
    \/ \E prefs \in {Undefined} \cup {Some(p) : p \in StoredPrefs} :
          LoadPreferences(prefs)

SpecRecent == Init /\ [][NextRecent]_vars

----------------------------------------------------------------------------
\* Claims.

\* the ids of a list, read off the list itself
IdsOf(list) == {list[i].id : i \in DOMAIN list}

\* C1: at most one Treasure Map submit request and at most one retract
\* request is in flight for any one instrument id.
C1_OneRequestPerInstrument ==
    \A i \in InstrumentIds :
        tmSubmitInFlight[i] <= 1 /\ tmDeleteInFlight[i] <= 1

C3_SubmissionsNeverOverlap ==
    /\ Len(submitHandlers) <= 1
    /\ Len(submitHandlers) = 1 => isSubmitting

\* C3 witness: one handler has passed its sources fetch and awaits the
\* galaxies fetch, the last of its chain, with the form disabled.
C3_Witness ==
    /\ Len(submitHandlers) = 1
    /\ submitHandlers[1].pc = "galaxies"
    /\ submitHandlers[1].data.queryList = Some(Targets)
    /\ isSubmitting

\* C4: whenever no submit handler is outstanding, isSubmitting is false.
C4_EnabledWhenNoHandler ==
    submitHandlers = <<>> => ~isSubmitting

\* C5: whenever the form's startDate is later than its endDate, validation
\* has recorded a start-date error and no submit handler runs on that data.
C5_StartAfterEndRejected ==
    /\ (FormRendered /\ formData.startDate.t > formData.endDate.t)
          => validate(formData).errors \cap {"start_date", "startDate"} # {}
    /\ \A i \in DOMAIN submitHandlers :
          submitHandlers[i].data.startDate[1].t
             <= submitHandlers[i].data.endDate[1].t

\* C6: for a cumulative probability below 0 or above 1.01 validation
\* returns the error set with a cumulative-probability error in it and no
\* submit handler runs on that data; for one within [0, 1.01] it records
\* no cumulative-probability error.
C6_CumprobOutsideRangeRejected ==
    LET outside == \/ formData.localizationCumprob < 0
                   \/ formData.localizationCumprob > 101
        cumErr == validate(formData).errors
                     \cap {"cumulative", "localizationCumprob"}
    IN
    /\ (FormRendered /\ outside) => (~validate(formData).threw /\ cumErr # {})
    /\ (FormRendered /\ ~outside) => cumErr = {}
    /\ \A i \in DOMAIN submitHandlers :
          /\ submitHandlers[i].data.localizationCumprob[1] >= 0
          /\ submitHandlers[i].data.localizationCumprob[1] <= 101

\* C7: once no overlay request is in flight, the overlay held for the plot
\* is the response to the request for the selected instrument/localization
\* pair, when that pair resolves.
C7_OverlayOfCurrentSelection ==
    ( /\ skymapInFlight = {}
      /\ selectedInstrumentId \in IdsOf(instrumentList)
      /\ selectedLocalizationId \in IdsOf(gcnEvent.localizations) )
    => skymapInstrument = <<selectedInstrumentId, selectedLocalizationId>>

\* C8: a step dispatches a sky-map request only if it changes the selected
\* instrument or localization and both selected ids resolve in the loaded
\* lists, and then for that pair; a change to a pair that does not resolve
\* dispatches nothing and leaves skymapInstrument unchanged.
C8_SkymapRequestOnlyIfResolved ==
    [][ LET changed == <<selectedInstrumentId', selectedLocalizationId'>>
                          # <<selectedInstrumentId, selectedLocalizationId>>
            resolves == /\ selectedInstrumentId' \in IdsOf(instrumentList')
                        /\ selectedLocalizationId'
                              \in IdsOf(gcnEvent'.localizations)
            dispatched == skymapInFlight' \ skymapInFlight
        IN  /\ dispatched # {} =>
                /\ changed
                /\ resolves
                /\ dispatched
                      = {<<selectedInstrumentId', selectedLocalizationId'>>}
            /\ (changed /\ resolves) =>
                <<selectedInstrumentId', selectedLocalizationId'>>
                    \in skymapInFlight'
            /\ (changed /\ ~resolves) =>
                /\ skymapInFlight' = skymapInFlight
                /\ skymapInstrument' = skymapInstrument
      ]_vars

\* C8 witness: the instrument was changed to 2 while the selected
\* localization is one the loaded event d2 does not have; no request for
\* that pair was dispatched.
C8_Witness ==
    /\ FormRendered
    /\ gcnEvent.dateobs = "d2"
    /\ selectedInstrumentId = 2
    /\ 2 \in IdsOf(instrumentList)
    /\ selectedLocalizationId = 2
    /\ \A req \in skymapInFlight : req[1] # 2
    /\ skymapInstrument # <<2, 2>>

\* the instrument of the list named ZTF
ZtfIds(list) == {list[i].id : i \in {j \in DOMAIN list : list[j].name = "ZTF"}}

\* the conditions of lines 436-441 hold for the event being loaded
DefaultsDerivedFor(ev) ==
    /\ LoadGcnEvent(ev)
    /\ dateobs = ev.dateobs
    /\ Len(instrumentList) > 0
    /\ Len(ev.localizations) > 0

\* C9: whenever defaults are derived from a list that holds an instrument
\* named ZTF among others, the selected instrument becomes the ZTF one.
C9_DefaultInstrumentIsZtf ==
    [][ \A ev \in Events :
          ( /\ DefaultsDerivedFor(ev)
            /\ ZtfIds(instrumentList) # {}
            /\ Len(instrumentList) > 1 )
          => selectedInstrumentId' \in ZtfIds(instrumentList)
      ]_vars

\* C9 witness: defaults were derived from a three-instrument list in which
\* ZTF is last and has the highest id.
C9_Witness ==
    /\ FormRendered
    /\ Len(gcnEvent.localizations) > 0
    /\ Len(instrumentList) = 3
    /\ instrumentList[3].name = "ZTF"
    /\ instrumentList[3].id = MaxOf(IdsOf(instrumentList))
    /\ selectedInstrumentId = instrumentList[3].id
    /\ selectedLocalizationId = gcnEvent.localizations[1].id

\* C10: whenever defaults are derived and no instrument is named ZTF, the
\* selected instrument becomes the one of minimum id; in all cases the
\* selected localization id and name become those of the event's first
\* localization.
C10_DefaultMinIdAndFirstLocalization ==
    [][ \A ev \in Events :
          DefaultsDerivedFor(ev) =>
            /\ ZtfIds(instrumentList) = {} =>
                  /\ selectedInstrumentId' \in IdsOf(instrumentList)
                  /\ \A id \in IdsOf(instrumentList) :
                        selectedInstrumentId' <= id
            /\ selectedLocalizationId' = ev.localizations[1].id
            /\ selectedLocalizationName'
                  = ev.localizations[1].localization_name
      ]_vars

\* C10 witness: defaults were derived from a list without ZTF whose lowest
\* id is not first, for an event whose first localization does not have the
\* lowest id.
C10_Witness ==
    /\ FormRendered
    /\ Len(gcnEvent.localizations) > 1
    /\ gcnEvent.localizations[1].id > gcnEvent.localizations[2].id
    /\ ZtfIds(instrumentList) = {}
    /\ Len(instrumentList) = 2
    /\ instrumentList[2].id < instrumentList[1].id
    /\ selectedInstrumentId = instrumentList[2].id
    /\ selectedLocalizationId = gcnEvent.localizations[1].id
    /\ selectedLocalizationName = gcnEvent.localizations[1].localization_name

\* the requested event is loaded with a localization, and the instrument
\* list is loaded and not empty
BothLoaded ==
    /\ ~gcnEvent.isNull
    /\ gcnEvent.dateobs = dateobs
    /\ Len(gcnEvent.localizations) > 0
    /\ Len(instrumentList) > 0

\* C11: from any state in which the requested event (with a localization)
\* and a non-empty instrument list are both loaded, whichever came first,
\* a state follows in which an instrument and a localization are selected
\* (or in which the two are no longer both loaded).
C11_DefaultsEventuallySelected ==
    [](BothLoaded =>
          <>( \/ ~BothLoaded
              \/ /\ selectedInstrumentId # NullId
                 /\ selectedLocalizationId # NullId ))

\* C12: the selected localization is unset or a localization of the loaded
\* event, and the selected instrument is unset or an instrument of the
\* loaded list.
C12_SelectionRefersToLoaded ==
    /\ selectedLocalizationId \in {NullId} \cup IdsOf(gcnEvent.localizations)
    /\ selectedInstrumentId \in {NullId} \cup IdsOf(instrumentList)

\* C13: while the requested dateobs is the loaded event's, an update of the
\* loaded event object (for the same dateobs) leaves an instrument and a
\* localization that are selected as they are.
C13_UpdateKeepsSelection ==
    [][ \A ev \in Events :
          ( /\ LoadGcnEvent(ev)
            /\ ~gcnEvent.isNull
            /\ gcnEvent.dateobs = dateobs
            /\ ev.dateobs = dateobs
            /\ selectedInstrumentId # NullId
            /\ selectedLocalizationId # NullId )
          => UNCHANGED <<selectedInstrumentId, selectedLocalizationId>>
      ]_vars

\* the one render state a collection stands for: absent, empty, populated
RenderStateOf(collection) ==
    IF collection.isNull THEN {"Fetching"}
    ELSE IF Len(collection.items) = 0 THEN {"None"}
    ELSE {"Table"}

\* C14 as stated: whenever the pane of a result category is shown, it
\* renders exactly the one of 'Fetching', 'None' and the table that the
\* state of the category's remote collection stands for.
C14_PaneRendersOneOfThree ==
    /\ (FormRendered /\ tabIndex = SourcesTab)
          => SourcesPane = RenderStateOf(gcnEventSources)
    /\ (FormRendered /\ tabIndex = GalaxiesTab)
          => GalaxiesPane = RenderStateOf(gcnEventGalaxies)
    /\ (FormRendered /\ tabIndex = ObservationsTab)
          => ObservationsPane = RenderStateOf(gcnEventObservations)

\* C14 amended: the Galaxies and the Observations pane render exactly the
\* one state their collection stands for; so does the Sources pane, except
\* that with a populated collection and no selectedLocalizationName it
\* renders none of the three.
C14_PaneRendersOneOfThreeUnlessNoName ==
    /\ (FormRendered /\ tabIndex = SourcesTab)
          => SourcesPane =
                IF /\ RenderStateOf(gcnEventSources) = {"Table"}
                   /\ selectedLocalizationName = NoName
                THEN {}
                ELSE RenderStateOf(gcnEventSources)
    /\ (FormRendered /\ tabIndex = GalaxiesTab)
          => GalaxiesPane = RenderStateOf(gcnEventGalaxies)
    /\ (FormRendered /\ tabIndex = ObservationsTab)
          => ObservationsPane = RenderStateOf(gcnEventObservations)

\* C14 witness: the Galaxies pane shows 'None' for an empty collection
\* while the sources are populated and the observations still absent.
C14_Witness ==
    /\ FormRendered
    /\ tabIndex = GalaxiesTab
    /\ ~gcnEventGalaxies.isNull
    /\ Len(gcnEventGalaxies.items) = 0
    /\ GalaxiesPane = {"None"}
    /\ ~gcnEventSources.isNull
    /\ Len(gcnEventSources.items) > 0
    /\ gcnEventObservations.isNull

\* C15: on the Sources tab with a populated sources collection, the table
\* is rendered exactly if selectedLocalizationName is set, and without the
\* name the pane renders nothing.
C15_SourcesTableIffName ==
    ( /\ FormRendered
      /\ tabIndex = SourcesTab
      /\ ~gcnEventSources.isNull
      /\ Len(gcnEventSources.items) > 0 )
    => /\ "Table" \in SourcesPane <=> selectedLocalizationName # NoName
       /\ selectedLocalizationName = NoName => SourcesPane = {}

\* C15 witness: the Sources tab is shown with a populated collection and
\* no localization name, and the pane is empty.
C15_Witness ==
    /\ FormRendered
    /\ tabIndex = SourcesTab
    /\ ~gcnEventSources.isNull
    /\ Len(gcnEventSources.items) > 0
    /\ selectedLocalizationName = NoName
    /\ SourcesPane = {}

C17_InstrumentToggleDisabledWhenListEmpty ==
    (FormRendered /\ PlotGate /\ Len(instrumentList) = 0)
    => ToggleDisabled("instrument")

\* C18: while the selected localization id is none of the loaded event's
\* localizations, neither the localization plot nor the 'Send to' and
\* 'Retract from' Treasure Map buttons are rendered.
C18_UnresolvedSelectionOffersNothing ==
    selectedLocalizationId \notin IdsOf(gcnEvent.localizations)
    => /\ ~PlotRendered
       /\ ~SubmitButtonOffered
       /\ ~DeleteButtonOffered

\* C19: of every submission, the fetches dispatched are for targets of its
\* queryList and for the dateobs of the event loaded when it was submitted,
\* an observations fetch carries includeGeoJSON = true, and when the
\* submission ends every target of its queryList has been fetched.
C19_FetchesMatchQueryList ==
    [][ /\ \A i \in DOMAIN submitHandlers' :
              LET h == submitHandlers'[i] IN
              /\ h.sent \subseteq h.data.queryList[1]
              /\ h.pc \in h.sent
              /\ h.pc = "observations" => h.data.includeGeoJSON
              /\ Len(submitHandlers') > Len(submitHandlers)
                    => submitHandlers'[Len(submitHandlers')].dateobs
                          = gcnEvent.dateobs
        /\ \A i \in DOMAIN submitHandlers :
              submitHandlers' = RemoveAt(submitHandlers, i)
              => submitHandlers[i].sent = submitHandlers[i].data.queryList[1]
      ]_vars

\* the names of the localizations of ev that have the id
NamesOf(ev, id) ==
    {ev.localizations[k].localization_name :
        k \in {j \in DOMAIN ev.localizations : ev.localizations[j].id = id}}

\* C20: the payload of a submission carries the localization_name of the
\* loaded event's localization with the selected id, if there is one; if
\* there is none it carries no localizationName and the fetches of
\* queryList are dispatched all the same; the later fetches of the
\* submission carry what the first carried.
C20_PayloadNameOfSelectedLocalization ==
    [][ /\ Len(submitHandlers') > Len(submitHandlers) =>
              LET h == submitHandlers'[Len(submitHandlers')]
                  names == NamesOf(gcnEvent, selectedLocalizationId)
              IN  /\ names # {} => h.data.localizationName \in names
                  /\ names = {} =>
                        /\ h.data.localizationName = NoName
                        /\ h.sent # {}
                        /\ h.sent \subseteq formData.queryList
        /\ Len(submitHandlers') = Len(submitHandlers) =>
              \A i \in DOMAIN submitHandlers :
                  submitHandlers'[i].data.localizationName
                      = submitHandlers[i].data.localizationName
      ]_vars

\* C20 witness: a filter was submitted for the event d2 while the selected
\* localization id was still that of a localization of d1; its sources
\* fetch and then its observations fetch were dispatched without a name.
C20_Witness ==
    /\ gcnEvent.dateobs = "d2"
    /\ selectedLocalizationId = 2
    /\ selectedLocalizationName # NoName
    /\ Len(submitHandlers) = 1
    /\ submitHandlers[1].dateobs = "d2"
    /\ submitHandlers[1].sent = {"sources", "observations"}
    /\ submitHandlers[1].data.localizationName = NoName

\* C21: sourceFilteringState changes only in a step in which the sources
\* fetch of a submission resolves, and it then is the filter that was
\* sent with that fetch; every other step (a submission without sources
\* in its queryList, a sources fetch that fails) leaves it as it is.
C21_SnapshotIsSubmittedFilter ==
    [][ sourceFilteringState' # sourceFilteringState =>
          \E i \in DOMAIN submitHandlers, n \in ResultSizes :
              /\ FetchDone(i, n)
              /\ submitHandlers[i].pc = "sources"
              /\ "sources" \in submitHandlers[i].data.queryList[1]
              /\ sourceFilteringState' = submitHandlers[i].data
      ]_vars

\* C22: a click on 'Send to' or 'Retract from' Treasure Map dispatches a
\* request for the selected instrument id whose data, read off
\* formDataState, has a startDate, an endDate, a localizationCumprob, a
\* localizationName and a localizationDateobs.
C22_TreasureMapPayloadComplete ==
    [][ LET data == TreasureMapData(formDataState) IN
        /\ handleSubmitTreasureMap =>
              /\ tmSubmitInFlight'[selectedInstrumentId]
                    = tmSubmitInFlight[selectedInstrumentId] + 1
              /\ data.startDate # Undefined
              /\ data.endDate # Undefined
              /\ data.localizationCumprob # Undefined
              /\ data.localizationName # NoName
              /\ data.localizationDateobs # Undefined
        /\ handleDeleteTreasureMap =>
              /\ tmDeleteInFlight'[selectedInstrumentId]
                    = tmDeleteInFlight[selectedInstrumentId] + 1
              /\ data.startDate # Undefined
              /\ data.endDate # Undefined
              /\ data.localizationCumprob # Undefined
              /\ data.localizationName # NoName
              /\ data.localizationDateobs # Undefined
      ]_vars

\* C23: a step that changes one of isSubmitting, isSubmittingTreasureMap
\* and isDeletingTreasureMap leaves the other two as they are; while a
\* query submission is pending the Treasure Map buttons are rendered
\* unless their own flag hides them, while a Treasure Map submit is
\* pending the retract button is rendered unless its own flag hides it,
\* and the query form is disabled by isSubmitting alone.
C23_FlagsIndependent ==
    [][ /\ isSubmitting' # isSubmitting =>
              UNCHANGED <<isSubmittingTreasureMap, isDeletingTreasureMap>>
        /\ isSubmittingTreasureMap' # isSubmittingTreasureMap =>
              UNCHANGED <<isSubmitting, isDeletingTreasureMap>>
        /\ isDeletingTreasureMap' # isDeletingTreasureMap =>
              UNCHANGED <<isSubmitting, isSubmittingTreasureMap>>
        /\ ( /\ isSubmitting
             /\ QueryTabShown
             /\ selectedLocalizationId # NullId )
           => /\ isSubmittingTreasureMap # selectedInstrumentId
                    => SubmitButtonOffered
              /\ isDeletingTreasureMap # selectedInstrumentId
                    => DeleteButtonOffered
        /\ ( /\ isSubmittingTreasureMap = selectedInstrumentId
             /\ QueryTabShown
             /\ selectedLocalizationId # NullId
             /\ isDeletingTreasureMap # selectedInstrumentId )
           => DeleteButtonOffered
        /\ ~isSubmitting => ~FormDisabled
      ]_vars

\* C23 witness: a query submission and a Treasure Map submit for the
\* selected instrument are both pending; the retract button is rendered
\* and no retract is pending.
C23_Witness ==
    /\ isSubmitting
    /\ Len(submitHandlers) = 1
    /\ selectedInstrumentId # NullId
    /\ isSubmittingTreasureMap = selectedInstrumentId
    /\ tmSubmitInFlight[selectedInstrumentId] = 1
    /\ isDeletingTreasureMap = NullId
    /\ DeleteButtonOffered

\* C24: the tab index starts at 1; the 'Skymap' tab (0) is never the
\* active tab on a large screen; the tab index changes only to the tab the
\* user selects, or from 0 to 1 when the screen becomes large; on a small
\* screen a selected tab 0 stays.
C24_SkymapTabOnlyOnSmallScreen ==
    /\ tabIndex = QueryFormTab
    /\ [][ /\ ~(isBig' /\ tabIndex' = SkymapTab)
           /\ tabIndex' # tabIndex =>
                 \/ \E newValue \in Tabs :
                       handleChangeTab(newValue) /\ tabIndex' = newValue
                 \/ /\ ~isBig /\ isBig'
                    /\ tabIndex = SkymapTab
                    /\ tabIndex' = QueryFormTab
           /\ (~isBig /\ handleChangeTab(SkymapTab)) =>
                 tabIndex' = SkymapTab
         ]_vars

\* C24 witness: on a small screen the user has selected the 'Skymap' tab
\* and it is the active tab.
C24_Witness ==
    /\ FormRendered
    /\ ~isBig
    /\ tabIndex = SkymapTab

\* the place of a target in the order sources, observations, galaxies
TargetRank(target) ==
    IF target = "sources" THEN 1 ELSE IF target = "observations" THEN 2 ELSE 3

\* C29: a submission dispatches a further fetch only in the step in which
\* the fetch it was awaiting resolves, and then for the first target of its
\* queryList, in the order sources, observations, galaxies, that comes
\* after the ones already fetched; a new submission starts with the first
\* target of that order; formDataState changes only in the step in which
\* the last fetch of a submission resolves (or in a submission without
\* targets).
C29_FetchesInOrderOneAtATime ==
    [][ /\ \A i \in DOMAIN submitHandlers' :
              LET h == submitHandlers'[i]
                  ql == h.data.queryList[1]
                  isNew == Len(submitHandlers') > Len(submitHandlers)
                  before == IF isNew THEN {} ELSE submitHandlers[i].sent
              IN  h.sent # before =>
                    /\ h.sent = before \cup {h.pc}
                    /\ h.pc \in ql \ before
                    /\ \A t \in before : TargetRank(t) < TargetRank(h.pc)
                    /\ \A t \in ql \ h.sent :
                          TargetRank(t) > TargetRank(h.pc)
                    /\ ~isNew =>
                          \E n \in ResultSizes : FetchDone(i, n)
        /\ formDataState' # formDataState =>
              \/ \E i \in DOMAIN submitHandlers, n \in ResultSizes :
                    /\ FetchDone(i, n)
                    /\ submitHandlers[i].sent
                          = submitHandlers[i].data.queryList[1]
                    /\ submitHandlers' = RemoveAt(submitHandlers, i)
              \/ handleSubmit /\ formData.queryList = {}
      ]_vars

\* C29 witness: a submission of all three targets awaits its last fetch,
\* the galaxies, and formDataState is still the one of before the
\* submission.
C29_Witness ==
    /\ Len(submitHandlers) = 1
    /\ submitHandlers[1].sent = Targets
    /\ submitHandlers[1].pc = "galaxies"
    /\ formDataState.queryList = Undefined

\* C30: a pagination callback of the sources table dispatches a fetch for
\* the event of the page with the filter data of the table, the current
\* localization name, the page number and the page size it was given,
\* and the sort fields exactly when a sort was given; a sorting callback
\* dispatches one for page 1 with the sort it was given and the page size
\* of the most recent pagination callback, 100 when there has been none.
C30_TableCallbacksRedispatch ==
    [][ /\ \A pageNumber \in PageNumbers, numPerPage \in NumPerPages,
              sortData \in SortDatas, filterData \in FilterDatas :
              handleSourcesTablePagination(pageNumber, numPerPage, sortData,
                                           filterData)
              => LET r == tableRequest'[1] IN
                 /\ r.dateobs = dateobs
                 /\ r.filterData = filterData
                 /\ r.localizationName = selectedLocalizationName
                 /\ r.pageNumber = pageNumber
                 /\ r.numPerPage = numPerPage
                 /\ IF sortData.kind = "sort"
                    THEN /\ r.sortBy = sortData.name
                         /\ r.sortOrder = sortData.direction
                    ELSE /\ r.sortBy = Undefined
                         /\ r.sortOrder = Undefined
        /\ \A sortData \in SortDatas, filterData \in FilterDatas :
              handleSourcesTableSorting(sortData, filterData)
              => LET r == tableRequest'[1] IN
                 /\ r.dateobs = dateobs
                 /\ r.filterData = filterData
                 /\ r.localizationName = selectedLocalizationName
                 /\ r.pageNumber = 1
                 /\ r.sortBy = sortData.name
                 /\ r.sortOrder = sortData.direction
                 /\ r.numPerPage =
                       IF lastNumPerPage = Undefined
                       THEN DefaultRowsPerPage ELSE lastNumPerPage[1]
      ]_vars

\* C25: choosing "Clear Selection" in the event select of the API trigger
\* selector leaves the event field and the localization field empty and
\* the trigger name at "None", the value it has while no trigger name is
\* known, whatever was selected before.
C25_ClearSelectionEmptiesSelections ==
    [][ gcneventidOnChange(ClearSelection)
        => /\ gcneventid' = NullId
           /\ localizationid' = NullId
           /\ selectedTriggerName' = NoTriggerName
      ]_vars

\* C26: when the fetch of the allocations resolves with a non-empty list,
\* selectedAllocationId is the id of its first allocation and one more
\* catalog request for that id is outstanding;
\* when a catalog request is answered with at least one name,
\* triggerList is the answer and selectedTriggerName its first name, and
\* with none triggerList is ["None"] and selectedTriggerName "None".
C26_FirstAllocationThenCatalog ==
    [][ /\ \A data \in AllocationLists :
              AllocationsResponse(data) /\ Len(data) > 0
              => /\ selectedAllocationId' = data[1]
                 /\ triggerInFlight'[data[1]] = triggerInFlight[data[1]] + 1
        /\ \A id \in AllocationIds :
              \A names \in Catalogs(id) :
                 TriggerResponse(id, names)
                 => IF Len(names) > 0
                    THEN /\ triggerList' = names
                         /\ selectedTriggerName' = names[1]
                    ELSE /\ triggerList' = <<"None">>
                         /\ selectedTriggerName' = "None"
      ]_vars

\* C26 witness: the allocations have loaded, the catalog of the first one
\* has been answered with two names and no request is outstanding.
C26_Witness ==
    /\ allocationsFetch = "done"
    /\ Len(allocationListApiObsplan) > 0
    /\ selectedAllocationId = allocationListApiObsplan[1]
    /\ Len(triggerList) > 1
    /\ triggerList[1] \in TriggerNames(selectedAllocationId)
    /\ selectedTriggerName = triggerList[1]
    /\ SumTo(triggerInFlight, MaxAllocationId) = 0

\* C27: 'Add trigger' dispatches the selected allocation with the
\* selected localization, 'Delete trigger' the selected allocation with
\* the selected trigger name, and neither changes triggerList,
\* selectedTriggerName, selectedAllocationId or the catalog requests
\* outstanding; triggerList changes only when a catalog request is
\* answered, and a catalog request is sent only in a step that changes
\* selectedAllocationId, for the new id.
C27_AddDeleteNoLocalUpdate ==
    [][ /\ handleAdd
           => /\ triggerRequest' =
                    Some([kind |-> "add",
                          allocation_id |-> selectedAllocationId,
                          localization_id |-> localizationid,
                          trigger_name |-> NoName])
              /\ UNCHANGED <<triggerList, selectedTriggerName,
                             selectedAllocationId, triggerInFlight>>
        /\ handleDelete
           => /\ triggerRequest' =
                    Some([kind |-> "delete",
                          allocation_id |-> selectedAllocationId,
                          localization_id |-> NullId,
                          trigger_name |-> selectedTriggerName])
              /\ UNCHANGED <<triggerList, selectedTriggerName,
                             selectedAllocationId, triggerInFlight>>
        /\ triggerList' # triggerList
           => \E id \in AllocationIds :
                 \E names \in Catalogs(id) : TriggerResponse(id, names)
        /\ \A id \in AllocationIds :
              triggerInFlight'[id] > triggerInFlight[id]
              => selectedAllocationId' = id /\ selectedAllocationId # id
      ]_vars

\* C27 witness: an add request for a localization has been dispatched
\* while the list holds the names of a catalog.
C27_Witness ==
    /\ triggerRequest # Undefined
    /\ triggerRequest[1].kind = "add"
    /\ triggerRequest[1].localization_id # NullId
    /\ triggerRequest[1].localization_id # gcneventid
    /\ triggerRequest[1].allocation_id = selectedAllocationId
    /\ triggerList # NoTriggers

\* C28: the widget, once rendered, has asked for the list exactly once,
\* offers the maxNumEvents of the stored preferences, "5" without stored
\* preferences, and renders one row per event of the store, in the order
\* of the store, each linking to /gcn_events/<dateobs> of its event.
C28_RecentWidgetRendersStore ==
    /\ recentMounted => recentFetches = 1
    /\ initialValues.maxNumEvents =
          IF recentGcnEventsPrefs = Undefined THEN "5"
          ELSE recentGcnEventsPrefs[1].maxNumEvents
    /\ Len(RecentRows(recentGcnEvents)) = Len(recentGcnEvents)
    /\ \A i \in DOMAIN recentGcnEvents :
          RecentRows(recentGcnEvents)[i].to
             = <<"gcn_events", recentGcnEvents[i]>>

\* C28 witness: the widget is rendered over as many events as the store
\* holds at most, not in the order of their dates, with a stored
\* preference of fewer events.
C28_Witness ==
    /\ recentMounted
    /\ Len(recentGcnEvents) = MaxRecentEvents
    /\ recentGcnEvents[1] = "d2"
    /\ recentGcnEvents[2] = "d1"
    /\ recentGcnEventsPrefs = Some([maxNumEvents |-> "1"])

\* C31: whenever no catalog request is outstanding and an allocation is
\* selected, triggerList is ["None"] or holds names of the catalog of
\* the selected allocation only, and so does selectedTriggerName, the
\* name a Delete would send with that allocation.
C31_TriggerListOfSelectedAllocation ==
    (SumTo(triggerInFlight, MaxAllocationId) = 0
        /\ selectedAllocationId # NullId)
    => /\ \/ triggerList = NoTriggers
          \/ \A i \in DOMAIN triggerList :
                triggerList[i] \in TriggerNames(selectedAllocationId)
       /\ \/ DeleteData.trigger_name = NoTriggerName
          \/ DeleteData.trigger_name \in TriggerNames(selectedAllocationId)

\* C32: in every state of the API trigger selector triggerList has at
\* least one element and selectedTriggerName is one of its elements.
C32_SelectedTriggerNameInList ==
    /\ Len(triggerList) > 0
    /\ \E i \in DOMAIN triggerList : triggerList[i] = selectedTriggerName

\* C32 witness: after a response with two names the user has selected
\* the second one.
C32_Witness ==
    /\ Len(triggerList) > 1
    /\ selectedTriggerName = triggerList[Len(triggerList)]
    /\ selectedTriggerName # NoTriggerName

\* C33: whenever selectedLocalizationId is the id of a localization of
\* the loaded event, selectedLocalizationName is the name of that
\* localization, which is the name a submission would put into its data.
C33_NameOfSelectedLocalization ==
    selectedLocalizationId \in DOMAIN locLookUp(gcnEvent)
    => /\ selectedLocalizationName =
             locLookUp(gcnEvent)[selectedLocalizationId].localization_name
       /\ PrepareFormData(formData).localizationName
             = selectedLocalizationName

\* C33 witness: the user has selected a localization of the loaded event
\* other than the default one.
C33_Witness ==
    /\ FormRendered
    /\ selectedLocalizationId \in DOMAIN locLookUp(gcnEvent)
    /\ selectedLocalizationId # gcnEvent.localizations[1].id
    /\ selectedLocalizationName # NoName

\* C34: while no query has been submitted, a click on 'Send to' or
\* 'Retract from' Treasure Map sends as startDate the dateobs of the
\* loaded event and as endDate that date plus seven days.
C34_TreasureMapDefaultDateRange ==
    [][ (submitHandlers = <<>>
            /\ formDataState.queryList = Undefined
            /\ (handleSubmitTreasureMap \/ handleDeleteTreasureMap))
        => /\ TreasureMapData(formDataState).startDate
                 = Some(defaultStartDate(gcnEvent))
           /\ TreasureMapData(formDataState).endDate
                 = Some(defaultEndDate(gcnEvent))
      ]_vars

====
